---- MODULE Spec2Model ----
(***************************************************************************)
(* A model of language/move-prover/bytecode/src/function_target.rs:        *)
(* the FunctionData record, the FunctionTarget query facade over it, and   *)
(* the transformation helpers (next-free-id allocation, callee extraction, *)
(* variable renaming, structural clone).                                   *)
(***************************************************************************)
EXTENDS Integers, Sequences, FiniteSets, TLC

VARIABLES func_env, data, cloned, op, arg, result

vars == <<func_env, data, cloned, op, arg, result>>

(***************************************************************************)
(* Bounds of the model.                                                    *)
(***************************************************************************)
MaxCodeLen == 2
MaxAttrId == 1
MaxLabel == 1
MaxTemp == 2
MaxReturns == 2
MaxNameLen == 4
MaxLocals == 2
MaxEntries == 2
MaxMinted == 2

(***************************************************************************)
(* Option<T>: None is the empty sequence, Some(v) the one-element one.     *)
(***************************************************************************)
None == << >>

Some(v) == <<v>>

is_some(o) == o # None

unwrap_or(o, d) == IF o = None THEN d ELSE o[1]

(***************************************************************************)
(* BTreeMap<K, V>: a function whose domain is the key set.                 *)
(***************************************************************************)
EmptyMap == [k \in {} |-> 0]

map_get(m, k) == IF k \in DOMAIN m THEN Some(m[k]) ELSE None

map_insert(m, k, v) == [x \in (DOMAIN m) \cup {k} |-> IF x = k THEN v ELSE m[x]]

Values(m) == {m[k] : k \in DOMAIN m}

MinOf(S) == CHOOSE x \in S : \A y \in S : x <= y

MaxOfSet(S) == CHOOSE x \in S : \A y \in S : y <= x

(***************************************************************************)
(* Bytecode.  Only the shapes function_target.rs matches on are kept:      *)
(* Label(attr, label), Jump(attr, label), Call(attr, _, operation, _)      *)
(* with operation either Function(mid, fid, _) or something else.          *)
(***************************************************************************)
AttrIds == 0..MaxAttrId

Labels == 0..MaxLabel

ModuleIds == {0, 1}

FunIds == {0, 1}

LabelInstr(a, l) ==
    [kind |-> "Label", attr |-> a, label |-> l, oper |-> "none", mid |-> 0, fid |-> 0]

JumpInstr(a, l) ==
    [kind |-> "Jump", attr |-> a, label |-> l, oper |-> "none", mid |-> 0, fid |-> 0]

CallFunctionInstr(a, m, f) ==
    [kind |-> "Call", attr |-> a, label |-> 0, oper |-> "Function", mid |-> m, fid |-> f]

CallOtherInstr(a) ==
    [kind |-> "Call", attr |-> a, label |-> 0, oper |-> "Add", mid |-> 0, fid |-> 0]

Bytecode ==
    {LabelInstr(a, l) : a \in AttrIds, l \in Labels}
    \cup {JumpInstr(a, l) : a \in AttrIds, l \in Labels}
    \cup {CallFunctionInstr(a, m, f) : a \in AttrIds, m \in ModuleIds, f \in FunIds}
    \cup {CallOtherInstr(a) : a \in AttrIds}

get_attr_id(b) == b.attr

qualified(m, f) == <<m, f>>

SeqsUpTo(S, n) == UNION {[1..k -> S] : k \in 0..n}

(***************************************************************************)
(* Types: only is_reference() is observed.                                 *)
(***************************************************************************)
Types == {"bool", "u64", "&mut T"}

is_reference(ty) == ty = "&mut T"

(***************************************************************************)
(* Iterator::max over a sequence of numbers, left to right.                *)
(***************************************************************************)
RECURSIVE iter_max_from(_, _, _)
iter_max_from(s, i, acc) ==
    IF i > Len(s) THEN acc
    ELSE iter_max_from(s, i + 1,
                       IF acc = None \/ s[i] >= acc[1] THEN Some(s[i]) ELSE acc)

iter_max(s) == iter_max_from(s, 1, None)

RECURSIVE filter_map_any_label(_)
filter_map_any_label(code) ==
    IF code = << >> THEN << >>
    ELSE IF Head(code).kind \in {"Label", "Jump"}
         THEN <<Head(code).label>> \o filter_map_any_label(Tail(code))
         ELSE filter_map_any_label(Tail(code))

RECURSIVE filter_map_labels(_)
filter_map_labels(code) ==
    IF code = << >> THEN << >>
    ELSE IF Head(code).kind = "Label"
         THEN <<Head(code).label>> \o filter_map_labels(Tail(code))
         ELSE filter_map_labels(Tail(code))

(***************************************************************************)
(* FunctionData                                                            *)
(***************************************************************************)
FunctionData_new(fenv, code, local_types, return_types, locations, acquires, blocks) ==
    [code |-> code,
     local_types |-> local_types,
     return_types |-> return_types,
     param_proxy_map |-> EmptyMap,
     ref_param_proxy_map |-> EmptyMap,
     ref_param_return_map |-> EmptyMap,
     acquires_global_resources |-> acquires,
     locations |-> locations,
     annotations |-> EmptyMap,
     spec_blocks_on_impl |-> blocks,
     name_to_index |-> [n \in {fenv.local_names[i] : i \in 1..Len(fenv.local_names)} |->
                          MaxOfSet({i - 1 : i \in {j \in 1..Len(fenv.local_names) :
                                                     fenv.local_names[j] = n}})],
     modify_targets |-> fenv.modify_targets]

next_free_attr_index_last(d) ==
    (IF d.code = << >> THEN 0 ELSE get_attr_id(d.code[Len(d.code)])) + 1

next_free_attr_index(d) ==
    unwrap_or(iter_max([i \in 1..Len(d.code) |-> get_attr_id(d.code[i])]), 0) + 1

next_free_label_index(d) ==
    unwrap_or(iter_max(filter_map_labels(d.code)), 0) + 1

RECURSIVE get_callees_any_call(_, _, _)
get_callees_any_call(code, i, callees) ==
    IF i > Len(code) THEN callees
    ELSE get_callees_any_call(code, i + 1,
             IF code[i].kind = "Call"
             THEN callees \cup {qualified(code[i].mid, code[i].fid)}
             ELSE callees)

RECURSIVE get_callees_from(_, _, _)
get_callees_from(code, i, callees) ==
    IF i > Len(code) THEN callees
    ELSE get_callees_from(code, i + 1,
             IF code[i].kind = "Call" /\ code[i].oper = "Function"
             THEN callees \cup {qualified(code[i].mid, code[i].fid)}
             ELSE callees)

get_callees(d) == get_callees_from(d.code, 1, {})

(***************************************************************************)
(* rename_vars: each map is taken, its entries visited in ascending key    *)
(* order, and (f(x), f(y)) collected into a fresh BTreeMap, a later        *)
(* insertion under an equal key replacing the earlier one.                 *)
(***************************************************************************)
TempIdx == 0..MaxTemp

Renamings == [TempIdx -> TempIdx]

RECURSIVE collect_renamed_keys(_, _, _, _)
collect_renamed_keys(m, f, rest, acc) ==
    IF rest = {} THEN acc
    ELSE LET x == MinOf(rest)
         IN  collect_renamed_keys(m, f, rest \ {x}, map_insert(acc, f[x], m[x]))

RECURSIVE collect_renamed(_, _, _, _)
collect_renamed(m, f, rest, acc) ==
    IF rest = {} THEN acc
    ELSE LET x == MinOf(rest)
         IN  collect_renamed(m, f, rest \ {x}, map_insert(acc, f[x], f[m[x]]))

rename_map(m, f) == collect_renamed(m, f, DOMAIN m, EmptyMap)

rename_vars_all_maps(d, f) ==
    [d EXCEPT !.param_proxy_map = rename_map(@, f),
              !.ref_param_proxy_map = rename_map(@, f),
              !.ref_param_return_map = rename_map(@, f)]

rename_vars(d, f) ==
    [d EXCEPT !.param_proxy_map = rename_map(@, f),
              !.ref_param_proxy_map = rename_map(@, f)]

(***************************************************************************)
(* FunctionTarget: lookups over the index maps.  The reverse lookups scan  *)
(* the map in ascending key order and return the first key that matches.   *)
(***************************************************************************)
RECURSIVE scan_for_value(_, _, _)
scan_for_value(m, rest, idx) ==
    IF rest = {} THEN None
    ELSE LET k == MinOf(rest)
         IN  IF m[k] = idx THEN Some(k) ELSE scan_for_value(m, rest \ {k}, idx)

get_return_index(d, idx) == map_get(d.ref_param_return_map, idx)

get_input_for_return_index_forward(d, idx) == map_get(d.ref_param_return_map, idx)

get_input_for_return_index(d, idx) ==
    scan_for_value(d.ref_param_return_map, DOMAIN d.ref_param_return_map, idx)

get_proxy_index(d, idx) == map_get(d.param_proxy_map, idx)

get_ref_proxy_index(d, idx) == map_get(d.ref_param_proxy_map, idx)

get_reverse_ref_proxy_index_forward(d, idx) == map_get(d.ref_param_proxy_map, idx)

get_reverse_ref_proxy_index(d, idx) ==
    scan_for_value(d.ref_param_proxy_map, DOMAIN d.ref_param_proxy_map, idx)

(***************************************************************************)
(* is_unchecked_param and call_ends_lifetime.  is_public() is read from    *)
(* the source-level descriptor, the return types from the record.          *)
(***************************************************************************)
RECURSIVE iter_all_not_reference(_)
iter_all_not_reference(tys) ==
    IF tys = << >> THEN TRUE
    ELSE IF is_reference(Head(tys)) THEN FALSE
         ELSE iter_all_not_reference(Tail(tys))

is_public(fenv) == fenv.is_public

call_ends_lifetime(fenv, d) ==
    is_public(fenv) /\ iter_all_not_reference(d.return_types)

is_unchecked_param_and(fenv, d, idx) ==
    (~is_public(fenv) /\ ~call_ends_lifetime(fenv, d))
    /\ is_some(get_ref_proxy_index(d, idx))

is_unchecked_param(fenv, d, idx) ==
    (~is_public(fenv) \/ ~call_ends_lifetime(fenv, d))
    /\ is_some(get_ref_proxy_index(d, idx))

(***************************************************************************)
(* get_local_index.  A Symbol is modelled by its text, a sequence of       *)
(* characters.  str::strip_prefix("$t") and str::parse::<usize>() are      *)
(* computed on the text: parse accepts an optional leading "+" followed    *)
(* by one or more decimal digits and fails on anything else; unwrap() of   *)
(* a failed parse panics.  The outcome of the call is a record saying      *)
(* whether it panicked and, if not, the Option it returned.                *)
(***************************************************************************)
Digits == {"0", "1"}

DigitValue(c) == IF c = "0" THEN 0 ELSE 1

RECURSIVE decimal_value(_, _)
decimal_value(ds, acc) ==
    IF ds = << >> THEN acc
    ELSE decimal_value(Tail(ds), acc * 10 + DigitValue(Head(ds)))

parse_usize(s) ==
    IF s = << >> THEN None
    ELSE LET ds == IF Head(s) = "+" THEN Tail(s) ELSE s
         IN  IF ds = << >> \/ \E i \in 1..Len(ds) : ds[i] \notin Digits
             THEN None
             ELSE Some(decimal_value(ds, 0))

strip_prefix_t(s) ==
    IF Len(s) >= 2 /\ s[1] = "$" /\ s[2] = "t"
    THEN Some(SubSeq(s, 3, Len(s)))
    ELSE None

Returned(v) == [panicked |-> FALSE, value |-> v]

Panicked == [panicked |-> TRUE, value |-> None]

get_local_index(d, name) ==
    IF name \in DOMAIN d.name_to_index
    THEN Returned(Some(d.name_to_index[name]))
    ELSE LET str == name
         IN  IF strip_prefix_t(str) # None
             THEN IF parse_usize(strip_prefix_t(str)[1]) = None
                  THEN Panicked
                  ELSE Returned(Some(parse_usize(strip_prefix_t(str)[1])[1]))
             ELSE Returned(None)

(***************************************************************************)
(* Structural clone: every field copied, annotations reset to the default. *)
(***************************************************************************)
FunctionData_clone_derived(d) == d

FunctionData_clone(d) ==
    [code |-> d.code,
     local_types |-> d.local_types,
     return_types |-> d.return_types,
     param_proxy_map |-> d.param_proxy_map,
     ref_param_proxy_map |-> d.ref_param_proxy_map,
     ref_param_return_map |-> d.ref_param_return_map,
     acquires_global_resources |-> d.acquires_global_resources,
     locations |-> d.locations,
     annotations |-> EmptyMap,
     spec_blocks_on_impl |-> d.spec_blocks_on_impl,
     name_to_index |-> d.name_to_index,
     modify_targets |-> d.modify_targets]

(***************************************************************************)
(* A fixed source-level descriptor and fixed side tables, used where the   *)
(* operations under study do not read them.                                *)
(***************************************************************************)
SampleEnv ==
    [is_public |-> FALSE,
     local_names |-> <<"x", "y">>,
     modify_targets |-> [s \in {7} |-> <<"e1">>]]

SampleLocations == [a \in {0} |-> "loc0"]

SampleSpecBlocks == [b \in {0} |-> 1]

(***************************************************************************)
(* Specification of the id-allocation and callee queries: the record is    *)
(* built from any lowered bytecode, then queried.                          *)
(***************************************************************************)
InitCode ==
    /\ func_env = SampleEnv
    /\ \E code \in SeqsUpTo(Bytecode, MaxCodeLen) :
         data = FunctionData_new(func_env, code, <<"&mut T", "u64">>, <<"bool">>,
                                 SampleLocations, <<7>>, SampleSpecBlocks)
    /\ cloned = None
    /\ op = "new"
    /\ arg = None
    /\ result = None

NextFreeAttrIndex ==
    /\ op' = "next_free_attr_index"
    /\ arg' = None
    /\ result' = next_free_attr_index(data)
    /\ UNCHANGED <<func_env, data, cloned>>

NextFreeLabelIndex ==
    /\ op' = "next_free_label_index"
    /\ arg' = None
    /\ result' = next_free_label_index(data)
    /\ UNCHANGED <<func_env, data, cloned>>

GetCallees ==
    /\ op' = "get_callees"
    /\ arg' = None
    /\ result' = get_callees(data)
    /\ UNCHANGED <<func_env, data, cloned>>

NextCode == NextFreeAttrIndex \/ NextFreeLabelIndex \/ GetCallees

SpecCode == InitCode /\ [][NextCode]_vars

(***************************************************************************)
(* C1: next_free_attr_index returns 1 on empty code, otherwise one more    *)
(* than the attribute id of some instruction, and in every case a value    *)
(* strictly greater than the attribute id of every instruction of `code`.  *)
(***************************************************************************)
C1_NextFreeAttrIndex ==
    op = "next_free_attr_index" =>
        /\ data.code = << >> => result = 1
        /\ data.code # << >> =>
              \E i \in 1..Len(data.code) : result = data.code[i].attr + 1
        /\ \A i \in 1..Len(data.code) : result > data.code[i].attr

C1_Witness ==
    /\ op = "next_free_attr_index"
    /\ Len(data.code) = 2
    /\ data.code[1].attr > data.code[2].attr
    /\ result = data.code[1].attr + 1

(***************************************************************************)
(* C2: next_free_label_index returns one more than the greatest label      *)
(* declared by a Label instruction of `code`, and 1 when `code` has no     *)
(* Label instruction; labels used by other instructions and attribute ids  *)
(* do not count.                                                           *)
(***************************************************************************)
DeclaredLabels(code) ==
    {code[i].label : i \in {j \in 1..Len(code) : code[j].kind = "Label"}}

C2_NextFreeLabelIndex ==
    op = "next_free_label_index" =>
        result = IF DeclaredLabels(data.code) = {} THEN 1
                 ELSE MaxOfSet(DeclaredLabels(data.code)) + 1

C2_Witness ==
    /\ op = "next_free_label_index"
    /\ \E i, j \in 1..Len(data.code) :
          /\ data.code[i].kind = "Label"
          /\ data.code[j].kind = "Jump"
          /\ data.code[j].label > data.code[i].label
          /\ data.code[j].attr > data.code[i].label
          /\ result = data.code[i].label + 1

(***************************************************************************)
(* C3: get_callees returns exactly the set of qualified ids of the Call    *)
(* instructions whose operation is Function: each once, nothing from any   *)
(* other instruction, and the same set for every reordering of `code`.     *)
(***************************************************************************)
DirectCallees(code) ==
    {qualified(code[i].mid, code[i].fid) :
        i \in {j \in 1..Len(code) : code[j].kind = "Call" /\ code[j].oper = "Function"}}

CodePermutations(n) == {p \in [1..n -> 1..n] : \A i, j \in 1..n : p[i] = p[j] => i = j}

Reorder(s, p) == [i \in 1..Len(s) |-> s[p[i]]]

C3_GetCallees ==
    op = "get_callees" =>
        /\ result = DirectCallees(data.code)
        /\ \A p \in CodePermutations(Len(data.code)) :
              get_callees([data EXCEPT !.code = Reorder(data.code, p)]) = result

C3_Witness ==
    /\ op = "get_callees"
    /\ Len(data.code) = 2
    /\ data.code[1].oper = "Function"
    /\ data.code[2].oper = "Function"
    /\ data.code[1].attr # data.code[2].attr
    /\ qualified(data.code[1].mid, data.code[1].fid) = qualified(data.code[2].mid, data.code[2].fid)
    /\ Cardinality(result) = 1

(***************************************************************************)
(* Specification of renaming: a freshly built record, a stage in which     *)
(* passes register proxy and return pairs, then rename_vars, then reverse  *)
(* lookups of the renamed record.  A pass pairs each parameter with a      *)
(* local or return slot of its own, so an insertion never reuses a value   *)
(* another key already holds.                                              *)
(***************************************************************************)
SampleCode == <<LabelInstr(0, 0), CallFunctionInstr(1, 0, 1)>>

EntryCount(d) ==
    Cardinality(DOMAIN d.param_proxy_map)
    + Cardinality(DOMAIN d.ref_param_proxy_map)
    + Cardinality(DOMAIN d.ref_param_return_map)

FreshFor(m, k, v) == \A x \in DOMAIN m : x # k => m[x] # v

Populating == op \in {"new", "pass"}

InitMaps ==
    /\ func_env = SampleEnv
    /\ data = FunctionData_new(func_env, SampleCode, <<"&mut T", "u64">>, <<"bool">>,
                               SampleLocations, <<7>>, SampleSpecBlocks)
    /\ cloned = None
    /\ op = "new"
    /\ arg = None
    /\ result = None

InsertParamProxy ==
    \E x, y \in TempIdx :
        /\ Populating
        /\ EntryCount(data) < MaxEntries
        /\ FreshFor(data.param_proxy_map, x, y)
        /\ data' = [data EXCEPT !.param_proxy_map = map_insert(@, x, y)]
        /\ op' = "pass"
        /\ arg' = None
        /\ result' = None
        /\ UNCHANGED <<func_env, cloned>>

InsertRefParamProxy ==
    \E x, y \in TempIdx :
        /\ Populating
        /\ EntryCount(data) < MaxEntries
        /\ FreshFor(data.ref_param_proxy_map, x, y)
        /\ data' = [data EXCEPT !.ref_param_proxy_map = map_insert(@, x, y)]
        /\ op' = "pass"
        /\ arg' = None
        /\ result' = None
        /\ UNCHANGED <<func_env, cloned>>

InsertRefParamReturn ==
    \E x, y \in TempIdx :
        /\ Populating
        /\ EntryCount(data) < MaxEntries
        /\ FreshFor(data.ref_param_return_map, x, y)
        /\ data' = [data EXCEPT !.ref_param_return_map = map_insert(@, x, y)]
        /\ op' = "pass"
        /\ arg' = None
        /\ result' = None
        /\ UNCHANGED <<func_env, cloned>>

RenameVars ==
    \E f \in Renamings :
        /\ Populating
        /\ data' = rename_vars(data, f)
        /\ op' = "rename_vars"
        /\ arg' = f
        /\ result' = None
        /\ UNCHANGED <<func_env, cloned>>

GetReverseRefProxyIndex ==
    \E idx \in TempIdx :
        /\ op' = "get_reverse_ref_proxy_index"
        /\ arg' = idx
        /\ result' = get_reverse_ref_proxy_index(data, idx)
        /\ UNCHANGED <<func_env, data, cloned>>

NextMaps ==
    \/ InsertParamProxy
    \/ InsertRefParamProxy
    \/ InsertRefParamReturn
    \/ RenameVars
    \/ GetReverseRefProxyIndex

SpecMaps == InitMaps /\ [][NextMaps]_vars

(***************************************************************************)
(* Specification of the return-slot lookups: passes register (input,       *)
(* return) pairs and the forward and inverse lookups are queried.          *)
(***************************************************************************)
GetReturnIndex ==
    \E idx \in TempIdx :
        /\ op' = "get_return_index"
        /\ arg' = idx
        /\ result' = get_return_index(data, idx)
        /\ UNCHANGED <<func_env, data, cloned>>

GetInputForReturnIndex ==
    \E idx \in TempIdx :
        /\ op' = "get_input_for_return_index"
        /\ arg' = idx
        /\ result' = get_input_for_return_index(data, idx)
        /\ UNCHANGED <<func_env, data, cloned>>

NextReturn == InsertRefParamReturn \/ GetReturnIndex \/ GetInputForReturnIndex

SpecReturn == InitMaps /\ [][NextReturn]_vars

(***************************************************************************)
(* The entries of a map as a set of pairs, and their image under f.        *)
(***************************************************************************)
Entries(m) == {<<k, m[k]>> : k \in DOMAIN m}

ImageEntries(m, f) == {<<f[k], f[m[k]]>> : k \in DOMAIN m}

InjectiveOnKeys(m, f) == \A x, y \in DOMAIN m : f[x] = f[y] => x = y

RenamedLastWins(old, new, f) ==
    /\ DOMAIN new = {f[x] : x \in DOMAIN old}
    /\ \A k \in DOMAIN new :
          new[k] = f[old[MaxOfSet({x \in DOMAIN old : f[x] = k})]]
    /\ Entries(new) \subseteq ImageEntries(old, f)
    /\ InjectiveOnKeys(old, f) => Entries(new) = ImageEntries(old, f)

(***************************************************************************)
(* C4 as stated: for every total f, rename_vars(f) leaves in each of       *)
(* param_proxy_map and ref_param_proxy_map exactly the pairs (f(x), f(y))  *)
(* of its old entries (x, y).                                              *)
(***************************************************************************)
C4_Original ==
    [][op' = "rename_vars" =>
          /\ Entries(data'.param_proxy_map) = ImageEntries(data.param_proxy_map, arg')
          /\ Entries(data'.ref_param_proxy_map) =
                 ImageEntries(data.ref_param_proxy_map, arg')]_vars

(***************************************************************************)
(* C4 amended: for every total f, after rename_vars(f) each of the two     *)
(* maps has exactly the keys f(x) of its old keys x, every entry is        *)
(* (f(x), f(y)) for an old entry (x, y), and where several old keys are    *)
(* renamed to one key the entry of the greatest old key is the one kept;   *)
(* when f keeps the keys of a map distinct the map is exactly the image    *)
(* of its old entries.                                                     *)
(***************************************************************************)
C4_RenameVars ==
    [][op' = "rename_vars" =>
          /\ RenamedLastWins(data.param_proxy_map, data'.param_proxy_map, arg')
          /\ RenamedLastWins(data.ref_param_proxy_map, data'.ref_param_proxy_map,
                             arg')]_vars

C4_Witness ==
    /\ op = "rename_vars"
    /\ \A i \in TempIdx : arg[i] # i
    /\ DOMAIN data.param_proxy_map # {}
    /\ DOMAIN data.ref_param_proxy_map # {}
    /\ data.param_proxy_map # data.ref_param_proxy_map

(***************************************************************************)
(* C5: rename_vars(f) changes no field of the record other than            *)
(* param_proxy_map and ref_param_proxy_map.                                *)
(***************************************************************************)
C5_RenameVarsFrame ==
    [][op' = "rename_vars" =>
          /\ data'.code = data.code
          /\ data'.local_types = data.local_types
          /\ data'.return_types = data.return_types
          /\ data'.name_to_index = data.name_to_index
          /\ data'.ref_param_return_map = data.ref_param_return_map
          /\ data'.locations = data.locations
          /\ data'.spec_blocks_on_impl = data.spec_blocks_on_impl
          /\ data'.acquires_global_resources = data.acquires_global_resources
          /\ data'.modify_targets = data.modify_targets
          /\ data'.annotations = data.annotations]_vars

C5_Witness ==
    /\ op = "rename_vars"
    /\ \E k \in DOMAIN data.ref_param_return_map :
          arg[k] # k /\ arg[data.ref_param_return_map[k]] # data.ref_param_return_map[k]
    /\ DOMAIN data.param_proxy_map \cup DOMAIN data.ref_param_proxy_map # {}
    /\ data.code # << >>

(***************************************************************************)
(* C7 as stated: for every entry (i, p) of ref_param_proxy_map,            *)
(* get_reverse_ref_proxy_index(p) is Some(i); for a p that is no value of  *)
(* the map it is None.                                                     *)
(***************************************************************************)
C7_Original ==
    op = "get_reverse_ref_proxy_index" =>
        /\ \A i \in DOMAIN data.ref_param_proxy_map :
              data.ref_param_proxy_map[i] = arg => result = Some(i)
        /\ arg \notin Values(data.ref_param_proxy_map) => result = None

(***************************************************************************)
(* C7 amended: for every entry (i, p) of ref_param_proxy_map,              *)
(* get_reverse_ref_proxy_index(p) is Some(i0) with i0 the least key whose  *)
(* value is p, hence Some(i) when i is the only key with value p; for a p  *)
(* that is no value of the map it is None.                                 *)
(***************************************************************************)
KeysOf(m, v) == {k \in DOMAIN m : m[k] = v}

C7_ReverseLookup ==
    op = "get_reverse_ref_proxy_index" =>
        /\ KeysOf(data.ref_param_proxy_map, arg) # {} =>
              result = Some(MinOf(KeysOf(data.ref_param_proxy_map, arg)))
        /\ \A i \in DOMAIN data.ref_param_proxy_map :
              KeysOf(data.ref_param_proxy_map, arg) = {i} => result = Some(i)
        /\ arg \notin Values(data.ref_param_proxy_map) => result = None

C7_Witness ==
    /\ op = "get_reverse_ref_proxy_index"
    /\ Cardinality(KeysOf(data.ref_param_proxy_map, arg)) = 2
    /\ result = Some(MinOf(KeysOf(data.ref_param_proxy_map, arg)))
    /\ result # Some(arg)

AnnotationKinds == {"livevar", "borrow"}

AnnotationValues == {1, 2}

SetAnnotation ==
    \E k \in AnnotationKinds, v \in AnnotationValues :
        /\ data' = [data EXCEPT !.annotations = map_insert(@, k, v)]
        /\ op' = "pass"
        /\ arg' = None
        /\ result' = None
        /\ UNCHANGED <<func_env, cloned>>

Clone ==
    /\ cloned' = FunctionData_clone(data)
    /\ op' = "clone"
    /\ arg' = None
    /\ result' = None
    /\ UNCHANGED <<func_env, data>>

NextClone == InsertRefParamProxy \/ SetAnnotation \/ Clone

SpecClone == InitMaps /\ [][NextClone]_vars

(***************************************************************************)
(* C6: a clone has an empty annotation store whatever the source holds,    *)
(* every other field equal to the source's, and cloning leaves the source  *)
(* record, annotations included, as it was.                                *)
(***************************************************************************)
C6_CloneDropsAnnotations ==
    [][op' = "clone" =>
          /\ cloned'.annotations = EmptyMap
          /\ cloned'.code = data.code
          /\ cloned'.local_types = data.local_types
          /\ cloned'.return_types = data.return_types
          /\ cloned'.param_proxy_map = data.param_proxy_map
          /\ cloned'.ref_param_proxy_map = data.ref_param_proxy_map
          /\ cloned'.ref_param_return_map = data.ref_param_return_map
          /\ cloned'.acquires_global_resources = data.acquires_global_resources
          /\ cloned'.locations = data.locations
          /\ cloned'.spec_blocks_on_impl = data.spec_blocks_on_impl
          /\ cloned'.name_to_index = data.name_to_index
          /\ cloned'.modify_targets = data.modify_targets
          /\ data' = data]_vars

C6_Witness ==
    /\ op = "clone"
    /\ DOMAIN data.annotations = AnnotationKinds
    /\ DOMAIN data.ref_param_proxy_map # {}
    /\ cloned # None
    /\ cloned.annotations = EmptyMap
    /\ cloned.ref_param_proxy_map = data.ref_param_proxy_map

(***************************************************************************)
(* Specification of the unchecked-parameter classification: a function of  *)
(* either visibility with any return types, passes registering reference   *)
(* proxies, and the two queries.                                           *)
(***************************************************************************)
InitTarget ==
    /\ \E pub \in BOOLEAN : func_env = [SampleEnv EXCEPT !.is_public = pub]
    /\ \E rets \in SeqsUpTo(Types, MaxReturns) :
         data = FunctionData_new(func_env, SampleCode, <<"&mut T", "u64">>, rets,
                                 SampleLocations, <<7>>, SampleSpecBlocks)
    /\ cloned = None
    /\ op = "new"
    /\ arg = None
    /\ result = None

IsUncheckedParam ==
    \E idx \in TempIdx :
        /\ op' = "is_unchecked_param"
        /\ arg' = idx
        /\ result' = is_unchecked_param(func_env, data, idx)
        /\ UNCHANGED <<func_env, data, cloned>>

CallEndsLifetime ==
    /\ op' = "call_ends_lifetime"
    /\ arg' = None
    /\ result' = call_ends_lifetime(func_env, data)
    /\ UNCHANGED <<func_env, data, cloned>>

NextTarget == InsertRefParamProxy \/ IsUncheckedParam \/ CallEndsLifetime

SpecTarget == InitTarget /\ [][NextTarget]_vars

(***************************************************************************)
(* C8: is_unchecked_param(idx) holds exactly when idx is a key of          *)
(* ref_param_proxy_map and the function is not public or a call to it does *)
(* not end lifetimes, where a call ends lifetimes exactly when the         *)
(* function is public and no return type is a reference.  So a registered  *)
(* idx of a private function is unchecked, no idx of a public function     *)
(* without reference return types is, and an unregistered idx never is.    *)
(***************************************************************************)
HasReferenceReturn(d) ==
    \E i \in 1..Len(d.return_types) : d.return_types[i] = "&mut T"

Chars == {"$", "t", "0", "1", "x"}

Names == SeqsUpTo(Chars, MaxNameLen)

DeclaredNames == {<<"x">>, <<"$", "t", "1">>, <<"$", "t", "x">>}

InitNames ==
    /\ \E names \in SeqsUpTo(DeclaredNames, MaxLocals) :
         func_env = [SampleEnv EXCEPT !.local_names = names]
    /\ data = FunctionData_new(func_env, SampleCode, <<"&mut T", "u64">>, <<"bool">>,
                               SampleLocations, <<7>>, SampleSpecBlocks)
    /\ cloned = None
    /\ op = "new"
    /\ arg = None
    /\ result = None

GetLocalIndex ==
    \E name \in Names :
        /\ op' = "get_local_index"
        /\ arg' = name
        /\ result' = get_local_index(data, name)
        /\ UNCHANGED <<func_env, data, cloned>>

NextNames == GetLocalIndex

SpecNames == InitNames /\ [][NextNames]_vars

(***************************************************************************)
(* C9: get_local_index(name) never fails; a name that is a key of          *)
(* name_to_index yields that entry; otherwise "$t" followed by decimal     *)
(* digits yields the number the digits denote; every other name, one that  *)
(* starts with "$t" and goes on with something that is no number included, *)
(* yields None.                                                            *)
(***************************************************************************)
HasTempPrefix(name) == Len(name) >= 2 /\ name[1] = "$" /\ name[2] = "t"

Suffix(name) == [i \in 1..(Len(name) - 2) |-> name[i + 2]]

IsNumber(s) == s # << >> /\ \A i \in 1..Len(s) : s[i] \in {"0", "1"}

RECURSIVE NumberOf(_)
NumberOf(s) ==
    IF s = << >> THEN 0
    ELSE 10 * NumberOf(SubSeq(s, 1, Len(s) - 1)) + (IF s[Len(s)] = "1" THEN 1 ELSE 0)

C9_GetLocalIndex ==
    op = "get_local_index" =>
        /\ ~result.panicked
        /\ arg \in DOMAIN data.name_to_index =>
              result.value = Some(data.name_to_index[arg])
        /\ (arg \notin DOMAIN data.name_to_index /\ HasTempPrefix(arg)
              /\ IsNumber(Suffix(arg))) =>
              result.value = Some(NumberOf(Suffix(arg)))
        /\ (arg \notin DOMAIN data.name_to_index
              /\ ~(HasTempPrefix(arg) /\ IsNumber(Suffix(arg)))) =>
              result.value = None

(***************************************************************************)
(* Specification of id minting: a record whose instructions carry          *)
(* pairwise distinct attribute ids and declare pairwise distinct labels,   *)
(* and passes that insert one instruction at a time at any offset, tagged  *)
(* with the value next_free_attr_index returns on the current record.  A   *)
(* pass that needs a new label takes it from next_free_label_index and     *)
(* declares it with the Label instruction it inserts.  `result` holds the  *)
(* attribute id minted by the step and the label minted last.              *)
(***************************************************************************)
AttrsOf(code) == {code[i].attr : i \in 1..Len(code)}

DistinctAttrIds(code) ==
    \A i, j \in 1..Len(code) : code[i].attr = code[j].attr => i = j

DistinctDeclaredLabels(code) ==
    \A i, j \in 1..Len(code) :
        (code[i].kind = "Label" /\ code[j].kind = "Label"
            /\ code[i].label = code[j].label) => i = j

IdBytecode ==
    {LabelInstr(a, l) : a \in AttrIds, l \in Labels}
    \cup {JumpInstr(a, l) : a \in AttrIds, l \in Labels}
    \cup {CallOtherInstr(a) : a \in AttrIds}

InsertAt(code, p, instr) ==
    SubSeq(code, 1, p) \o <<instr>> \o SubSeq(code, p + 1, Len(code))

Minting(o) == o \in {"insert_instr", "insert_label"}

LastMintedLabel == IF Minting(op) THEN result.label ELSE None

InitMint ==
    /\ func_env = SampleEnv
    /\ \E code \in SeqsUpTo(IdBytecode, MaxCodeLen) :
         /\ DistinctAttrIds(code)
         /\ DistinctDeclaredLabels(code)
         /\ data = FunctionData_new(func_env, code, <<"&mut T", "u64">>, <<"bool">>,
                                    SampleLocations, <<7>>, SampleSpecBlocks)
    /\ cloned = None
    /\ op = "new"
    /\ arg = None
    /\ result = None

InsertInstr ==
    \E p \in 0..Len(data.code) :
        LET a == next_free_attr_index(data)
        IN  /\ Len(data.code) < MaxCodeLen + MaxMinted
            /\ data' = [data EXCEPT !.code = InsertAt(@, p, CallOtherInstr(a))]
            /\ op' = "insert_instr"
            /\ arg' = p
            /\ result' = [attr |-> a, label |-> LastMintedLabel]
            /\ UNCHANGED <<func_env, cloned>>

InsertLabel ==
    \E p \in 0..Len(data.code) :
        LET a == next_free_attr_index(data)
            l == next_free_label_index(data)
        IN  /\ Len(data.code) < MaxCodeLen + MaxMinted
            /\ data' = [data EXCEPT !.code = InsertAt(@, p, LabelInstr(a, l))]
            /\ op' = "insert_label"
            /\ arg' = p
            /\ result' = [attr |-> a, label |-> Some(l)]
            /\ UNCHANGED <<func_env, cloned>>

NextMint == InsertInstr \/ InsertLabel

SpecMint == InitMint /\ [][NextMint]_vars

(***************************************************************************)
(* C11: from a record with pairwise distinct attribute ids, while passes   *)
(* insert one instruction at a time tagged with next_free_attr_index of    *)
(* the current record, the attribute ids of `code` stay pairwise distinct, *)
(* each minted id is unused before the step, and successive minted ids     *)
(* strictly increase; likewise the labels minted with                      *)
(* next_free_label_index and declared on minting stay pairwise distinct    *)
(* among the Label instructions and strictly increase.                     *)
(***************************************************************************)
C11_MintedIdsFresh ==
    /\ [](DistinctAttrIds(data.code) /\ DistinctDeclaredLabels(data.code))
    /\ [][Minting(op') =>
            /\ result'.attr \notin AttrsOf(data.code)
            /\ result'.attr \in AttrsOf(data'.code)
            /\ Minting(op) => result'.attr > result.attr
            /\ op' = "insert_label" =>
                  /\ result'.label[1] \notin DeclaredLabels(data.code)
                  /\ result'.label[1] \in DeclaredLabels(data'.code)
                  /\ LastMintedLabel # None => result'.label[1] > LastMintedLabel[1]]_vars

C11_Witness ==
    /\ op = "insert_label"
    /\ result.attr >= MaxAttrId + 2
    /\ result.label[1] >= MaxLabel + 2
    /\ \E i \in 1..(Len(data.code) - 1) :
          /\ data.code[i].kind = "Label"
          /\ data.code[i].attr = result.attr
          /\ data.code[i].label = result.label[1]
          /\ data.code[i + 1].attr < result.attr

====
